---- MODULE Spec2Model ----
(***************************************************************************)
(* soa::soa<T>: a struct-of-arrays container.  One std::vector per field   *)
(* of the aggregate T, kept in a tuple (`vectors`); element proxies        *)
(* (_wrapper) and cursors (_iterator) are (parent, index) pairs.           *)
(*                                                                         *)
(* The record type T has the shape of the test suite's Foo: an int and a   *)
(* std::string.  Its default member initialisers, which decide T{}, are    *)
(* left open (Tdefault).  A record is the tuple <<i, s>>; indices are the  *)
(* C++ 0-based indices, element k of a vector is vec[k + 1].               *)
(***************************************************************************)
EXTENDS Integers, Sequences, FiniteSets, TLC

\* Number of fields of T (Foo has two: i and s).
NumFields == 2
\* Largest size a container is grown to.
MaxSize == 3
\* Longest range / initializer_list / count passed to a multi-element call.
MaxIns == 2

Fields == 1..NumFields
Containers == {"a", "b"}

\* Records handed to the container by callers.
InputRecords == {<<0, "">>, <<1, "x">>}

\* What std::vector<F>::resize(count) appends for field f: a value-initialised
\* F (int() = 0, std::string() = "").
ValueInit(f) == IF f = 1 THEN 0 ELSE ""

VARIABLES
    vectors,    \* vectors[c][f]: the std::vector of field f of container c
    Tdefault,   \* T{}: the record the default member initialisers of T give
    last        \* the call being observed: its name, arguments, result, exception

vars == <<vectors, Tdefault, last>>

----------------------------------------------------------------------------
\* std::vector operations used by the container, on one field array.

vec_insert(vec, index, x) ==
    SubSeq(vec, 1, index) \o <<x>> \o SubSeq(vec, index + 1, Len(vec))

\* A faulty erase: drops the elements from the back instead of [first, lst).
vec_erase_from_back(vec, first, lst) ==
    SubSeq(vec, 1, Len(vec) - (lst - first))

vec_erase(vec, first, lst) ==
    SubSeq(vec, 1, first) \o SubSeq(vec, lst + 1, Len(vec))

vec_assign(count, x) == [k \in 1..count |-> x]

vec_resize(vec, count, x) ==
    IF count <= Len(vec) THEN SubSeq(vec, 1, count)
    ELSE vec \o [k \in 1..(count - Len(vec)) |-> x]

vec_set(vec, index, x) == [vec EXCEPT ![index + 1] = x]

----------------------------------------------------------------------------
\* The private helpers of soa.

EmptyVectors == [f \in Fields |-> <<>>]

\* reflect::get<I>(value)
get(value, f) == value[f]

\* for_each_vector(fn) and for_each_vector(fn, value): fn(get_vector<I>()),
\* or fn(get_vector<I>(), reflect::get<I>(value)), for every field I in field
\* order.  fn[I] is the vector fn leaves in place of get_vector<I>(); `upto` is
\* the number of field arrays fn returned from: NumFields unless fn threw.
for_each_vector(vecs, fn, upto) ==
    [I \in Fields |-> IF I <= upto THEN fn[I] ELSE vecs[I]]

\* fields(index): the tuple of references to slot `index` of every array.
fields(vecs, index) == [f \in Fields |-> vecs[f][index + 1]]

\* size(): the length of the first field array.
size(vecs) == Len(vecs[1])

----------------------------------------------------------------------------
\* The public operations, as functions of one container's field arrays.
\* `upto` (and `failAt` for a loop of inserts) say where an allocation
\* failure stopped the call; NumFields (and 0) mean it returned normally.

clear(vecs) == for_each_vector(vecs, [I \in Fields |-> <<>>], NumFields)

assign(vecs, count, value) ==
    for_each_vector(clear(vecs),
        [I \in Fields |-> vec_assign(count, get(value, I))], NumFields)

insert(vecs, index, value, upto) ==
    for_each_vector(vecs,
        [I \in Fields |-> vec_insert(vecs[I], index, get(value, I))], upto)

\* insert(pos, count, value): for (i = 0; i < count; ++i) insert(pos + i, value)
RECURSIVE insert_count_loop(_, _, _, _, _, _, _)
insert_count_loop(vecs, pos, count, value, i, failAt, upto) ==
    IF i >= count THEN vecs
    ELSE IF i + 1 = failAt THEN insert(vecs, pos + i, value, upto)
    ELSE insert_count_loop(insert(vecs, pos + i, value, NumFields),
                           pos, count, value, i + 1, failAt, upto)

insert_count(vecs, pos, count, value, failAt, upto) ==
    insert_count_loop(vecs, pos, count, value, 0, failAt, upto)

\* A faulty range insert: the position is not advanced.
RECURSIVE insert_range_same_pos(_, _, _, _, _)
insert_range_same_pos(vecs, pos, range, failAt, upto) ==
    IF range = <<>> THEN vecs
    ELSE IF failAt = 1 THEN insert(vecs, pos, Head(range), upto)
    ELSE insert_range_same_pos(insert(vecs, pos, Head(range), NumFields),
                               pos, Tail(range), failAt - 1, upto)

\* insert(pos, first, last): for (it = first; it != last; ++it, ++pos) insert(pos, *it)
RECURSIVE insert_range(_, _, _, _, _)
insert_range(vecs, pos, range, failAt, upto) ==
    IF range = <<>> THEN vecs
    ELSE IF failAt = 1 THEN insert(vecs, pos, Head(range), upto)
    ELSE insert_range(insert(vecs, pos, Head(range), NumFields),
                      pos + 1, Tail(range), failAt - 1, upto)

\* insert(pos, ilist): for (auto&& value : ilist) insert(pos++, value)
RECURSIVE insert_ilist(_, _, _, _, _)
insert_ilist(vecs, pos, ilist, failAt, upto) ==
    IF ilist = <<>> THEN vecs
    ELSE IF failAt = 1 THEN insert(vecs, pos, Head(ilist), upto)
    ELSE insert_ilist(insert(vecs, pos, Head(ilist), NumFields),
                      pos + 1, Tail(ilist), failAt - 1, upto)

erase(vecs, index) ==
    for_each_vector(vecs,
        [I \in Fields |-> vec_erase(vecs[I], index, index + 1)], NumFields)

erase_range(vecs, first_index, last_index) ==
    for_each_vector(vecs,
        [I \in Fields |-> vec_erase(vecs[I], first_index, last_index)], NumFields)

\* A faulty push_back: the last field array is left out.
push_back_skips_field(vecs, value, upto) ==
    for_each_vector(vecs,
        [I \in Fields |-> Append(vecs[I], get(value, I))], upto - 1)

push_back(vecs, value, upto) ==
    for_each_vector(vecs,
        [I \in Fields |-> Append(vecs[I], get(value, I))], upto)

pop_back(vecs) ==
    for_each_vector(vecs,
        [I \in Fields |-> SubSeq(vecs[I], 1, Len(vecs[I]) - 1)], NumFields)

\* resize(count): every vector value-initialises its own new elements.
resize(vecs, count, upto) ==
    for_each_vector(vecs,
        [I \in Fields |-> vec_resize(vecs[I], count, ValueInit(I))], upto)

resize_value(vecs, count, value, upto) ==
    for_each_vector(vecs,
        [I \in Fields |-> vec_resize(vecs[I], count, get(value, I))], upto)

\* soa(count): vec.assign(count, field) with the fields of T{}
soa_count(count, dflt) ==
    for_each_vector(EmptyVectors,
        [I \in Fields |-> vec_assign(count, get(dflt, I))], NumFields)

\* soa(count, value)
soa_count_value(count, val) ==
    for_each_vector(EmptyVectors,
        [I \in Fields |-> vec_assign(count, get(val, I))], NumFields)

\* soa(first, last) and soa(ilist): insert(end(), ...) into the empty container
soa_range(range) == insert_range(EmptyVectors, size(EmptyVectors), range, 0, NumFields)

soa_ilist(ilist) == insert_ilist(EmptyVectors, size(EmptyVectors), ilist, 0, NumFields)

assign_range(vecs, range) ==
    insert_range(clear(vecs), size(clear(vecs)), range, 0, NumFields)

assign_ilist(vecs, ilist) ==
    insert_ilist(clear(vecs), size(clear(vecs)), ilist, 0, NumFields)

\* _wrapper::value(): a T made from fields(index)
value(vecs, index) == fields(vecs, index)

\* A faulty assignment: only the first field is written.
wrapper_assign_first_field(vecs, index, val) ==
    for_each_vector(vecs,
        [I \in Fields |-> vec_set(vecs[I], index, get(val, I))], 1)

\* _wrapper::operator=(const T&) and operator=(T&&): vec[index] = field
wrapper_assign(vecs, index, val) ==
    for_each_vector(vecs,
        [I \in Fields |-> vec_set(vecs[I], index, get(val, I))], NumFields)

\* A faulty proxy swap: the second slot is given what the first one now
\* holds, not what it held.
wrapper_swap_no_tmp(vs, c, a, other, b) ==
    LET y == fields(vs[other], b)
        first == [vs EXCEPT ![c] = [I \in Fields |-> vec_set(vs[c][I], a, y[I])]]
        x == fields(first[c], a)
    IN  [first EXCEPT ![other] = [I \in Fields |-> vec_set(first[other][I], b, x[I])]]

\* _wrapper::swap(other): std::swap(field<Ns>(), other.field<Ns>()) for every
\* field; the two proxies are (c, a) and (other, b).
wrapper_swap(vs, c, a, other, b) ==
    LET x == fields(vs[c], a)
        y == fields(vs[other], b)
        first == [vs EXCEPT ![c] = [I \in Fields |-> vec_set(vs[c][I], a, y[I])]]
    IN  [first EXCEPT ![other] = [I \in Fields |-> vec_set(first[other][I], b, x[I])]]

\* Foo::operator==: the records are compared field by field.
T_eq(x, y) == \A f \in Fields : get(x, f) = get(y, f)

\* _wrapper::operator==(const T&): value() == other.
wrapper_eq_value(vs, c, a, r) == T_eq(value(vs[c], a), r)

\* A faulty proxy comparison: two proxies are equal only when they are the
\* same reference.
wrapper_eq_same_only(vs, c, a, other, b) == c = other /\ a = b

\* _wrapper::operator==(const _wrapper&): the same parent and index are equal
\* at once, anything else is compared by value.
wrapper_eq(vs, c, a, other, b) ==
    IF c = other /\ a = b
        THEN TRUE
        ELSE wrapper_eq_value(vs, c, a, value(vs[other], b))

\* Foo's members in declaration order: the keys field<I>(), field<"name">()
\* and field<U>() take.
FieldIndexKeys == <<"0", "1">>
FieldNames == <<"i", "s">>
FieldTypes == <<"int", "std::string">>
Keys == {FieldIndexKeys[I] : I \in Fields} \cup {FieldNames[I] : I \in Fields}
            \cup {FieldTypes[I] : I \in Fields}

\* The values a field of the record type can take.
FieldValues(I) == {get(r, I) : r \in InputRecords}

\* reflect::index_of<FieldName, T>(): the position of the member of that name.
index_of(FieldName) == CHOOSE I \in Fields : FieldNames[I] = FieldName

\* get_vector<I>() is std::get<I>(vectors); get_vector<U>() is
\* std::get<std::vector<U>>(vectors), the one element of that type.
get_vector(key) ==
    IF key \in {FieldTypes[I] : I \in Fields}
        THEN CHOOSE I \in Fields : FieldTypes[I] = key
        ELSE CHOOSE I \in Fields : FieldIndexKeys[I] = key

\* The field array that soa::field<key>() spans: a name is turned into its
\* index first.
field_of(key) ==
    IF key \in {FieldNames[I] : I \in Fields}
        THEN get_vector(FieldIndexKeys[index_of(key)])
        ELSE get_vector(key)

\* soa::field<key>(): a std::span over the live field array.
field(vecs, key) == vecs[field_of(key)]

\* _wrapper::field<key>(): parent->field<key>()[index].
wrapper_field(vecs, key, index) == field(vecs, key)[index + 1]

\* A faulty write through the span: the first element is written whatever k.
field_write_front(vecs, key, k, x) ==
    [vecs EXCEPT ![field_of(key)] = vec_set(vecs[field_of(key)], 0, x)]

\* field<key>()[k] = x: a write through the span.
field_write(vecs, key, k, x) ==
    [vecs EXCEPT ![field_of(key)] = vec_set(vecs[field_of(key)], k, x)]

\* A faulty begin(): the cursor starts at the second record.
soa_begin_second(c) == [parent |-> c, index |-> 1]

\* begin() is iterator(this, 0) and end() is iterator(this, size()).
soa_begin(c) == [parent |-> c, index |-> 0]
soa_end(vs, c) == [parent |-> c, index |-> size(vs[c])]

\* _iterator::operator== and operator++.
iterator_eq(x, y) == x.parent = y.parent /\ x.index = y.index
iterator_inc(it) == [it EXCEPT !.index = it.index + 1]

\* _iterator::operator* makes the proxy of the cursor's parent and index.
iterator_deref(it) == [parent |-> it.parent, index |-> it.index]

\* Reading through a proxy: parent->fields(index) made into a T.
wrapper_value(vs, p) == value(vs[p.parent], p.index)

\* A faulty move: the source keeps its elements (a copy).
moved_from_keeps(vecs) == vecs

\* The state a defaulted move leaves the source in: every vector moved from.
moved_from(vecs) == [f \in Fields |-> <<>>]

\* A faulty swap: the other container is not given this one's arrays.
swap_one_way(vs, c, other) == [vs EXCEPT ![c] = vs[other]]

\* soa::swap: vectors.swap(other.vectors), on the whole state.
swap(vs, c, other) == [vs EXCEPT ![c] = vs[other], ![other] = vs[c]]

----------------------------------------------------------------------------
\* Arguments.

Indices == 0..(MaxSize + 1)
Counts == 0..MaxSize
RECURSIVE SeqsUpTo(_)
SeqsUpTo(n) ==
    IF n = 0 THEN {<<>>}
    ELSE SeqsUpTo(n - 1) \cup
         {Append(q, r) : q \in {t \in SeqsUpTo(n - 1) : Len(t) = n - 1}, r \in InputRecords}
Ranges == SeqsUpTo(MaxIns)

\* Every field array of the container has a slot `index` / a position `index`.
HasSlot(vecs, index) == \A f \in Fields : index < Len(vecs[f])
HasPos(vecs, index) == \A f \in Fields : index <= Len(vecs[f])
\* Every field array can take k more elements within the model's bound.
Room(vecs, k) == \A f \in Fields : Len(vecs[f]) + k <= MaxSize

\* No proxy or cursor is held.
NoProxy == [parent |-> "-", index |-> -1]

\* An observed call: its arguments, what it returned or threw, the field key
\* of a field() call, and the proxy or cursor the caller holds after it.
Call(op, c, other, i, j, recs, ret, thrown) ==
    [op |-> op, c |-> c, other |-> other, i |-> i, j |-> j, recs |-> recs,
     ret |-> ret, thrown |-> thrown, key |-> "-", held |-> NoProxy]

\* A call after which the caller holds the proxy or cursor `held`; last.i
\* counts the cursor's increments.
HeldCall(op, c, other, i, recs, held) ==
    [Call(op, c, other, i, -1, recs, held.index, "none") EXCEPT !.held = held]

\* A field<key>() call on container c.
KeyCall(op, c, key, i, recs) ==
    [Call(op, c, c, i, -1, recs, -1, "none") EXCEPT !.key = key]

\* No call is being observed: the caller is between two statements.
Idle == Call("-", "-", "-", -1, -1, <<>>, -1, "none")

\* Two empty containers of a record type T with some default member
\* initialisers (Foo's give <<0, "">>).
Init ==
    /\ vectors = [c \in Containers |-> EmptyVectors]
    /\ Tdefault \in InputRecords
    /\ last = Idle

----------------------------------------------------------------------------
\* Construction and assignment.  Constructing `c` starts a new object in c.

Construct(c) ==
    /\ last = Idle
    /\ vectors' = [vectors EXCEPT ![c] = EmptyVectors]
    /\ last' = Call("soa()", c, "-", -1, -1, <<>>, -1, "none")
    /\ UNCHANGED Tdefault

ConstructCount(c, count) ==
    /\ last = Idle
    /\ vectors' = [vectors EXCEPT ![c] = soa_count(count, Tdefault)]
    /\ last' = Call("soa(count)", c, "-", count, -1, <<>>, -1, "none")
    /\ UNCHANGED Tdefault

ConstructCountValue(c, count, val) ==
    /\ last = Idle
    /\ vectors' = [vectors EXCEPT ![c] = soa_count_value(count, val)]
    /\ last' = Call("soa(count,value)", c, "-", count, -1, <<val>>, -1, "none")
    /\ UNCHANGED Tdefault

ConstructRange(c, range) ==
    /\ last = Idle
    /\ vectors' = [vectors EXCEPT ![c] = soa_range(range)]
    /\ last' = Call("soa(first,last)", c, "-", -1, -1, range, -1, "none")
    /\ UNCHANGED Tdefault

ConstructIlist(c, ilist) ==
    /\ last = Idle
    /\ vectors' = [vectors EXCEPT ![c] = soa_ilist(ilist)]
    /\ last' = Call("soa(ilist)", c, "-", -1, -1, ilist, -1, "none")
    /\ UNCHANGED Tdefault

CopyConstruct(c, other) ==
    /\ last = Idle
    /\ c # other
    /\ vectors' = [vectors EXCEPT ![c] = vectors[other]]
    /\ last' = Call("soa(const soa&)", c, other, -1, -1, <<>>, -1, "none")
    /\ UNCHANGED Tdefault

MoveConstruct(c, other) ==
    /\ last = Idle
    /\ c # other
    /\ vectors' = [vectors EXCEPT ![c] = vectors[other], ![other] = moved_from(vectors[other])]
    /\ last' = Call("soa(soa&&)", c, other, -1, -1, <<>>, -1, "none")
    /\ UNCHANGED Tdefault

CopyAssign(c, other) ==
    /\ last = Idle
    /\ vectors' = [vectors EXCEPT ![c] = vectors[other]]
    /\ last' = Call("operator=(const soa&)", c, other, -1, -1, <<>>, -1, "none")
    /\ UNCHANGED Tdefault

MoveAssign(c, other) ==
    /\ last = Idle
    /\ c # other
    /\ vectors' = [vectors EXCEPT ![c] = vectors[other], ![other] = moved_from(vectors[other])]
    /\ last' = Call("operator=(soa&&)", c, other, -1, -1, <<>>, -1, "none")
    /\ UNCHANGED Tdefault

AssignIlistOp(c, ilist) ==
    /\ last = Idle
    /\ vectors' = [vectors EXCEPT ![c] = assign_ilist(vectors[c], ilist)]
    /\ last' = Call("operator=(ilist)", c, "-", -1, -1, ilist, -1, "none")
    /\ UNCHANGED Tdefault

Assign(c, count, val) ==
    /\ last = Idle
    /\ vectors' = [vectors EXCEPT ![c] = assign(vectors[c], count, val)]
    /\ last' = Call("assign(count,value)", c, "-", count, -1, <<val>>, -1, "none")
    /\ UNCHANGED Tdefault

AssignRange(c, range) ==
    /\ last = Idle
    /\ vectors' = [vectors EXCEPT ![c] = assign_range(vectors[c], range)]
    /\ last' = Call("assign(first,last)", c, "-", -1, -1, range, -1, "none")
    /\ UNCHANGED Tdefault

AssignIlist(c, ilist) ==
    /\ last = Idle
    /\ vectors' = [vectors EXCEPT ![c] = assign_ilist(vectors[c], ilist)]
    /\ last' = Call("assign(ilist)", c, "-", -1, -1, ilist, -1, "none")
    /\ UNCHANGED Tdefault

----------------------------------------------------------------------------
\* Element access and the element proxy.

\* A faulty at: the bound check is off by one.
At_off_by_one(c, index) ==
    /\ last = Idle
    /\ IF index > size(vectors[c])
       THEN last' = Call("at", c, "-", index, -1, <<>>, -1, "out_of_range")
       ELSE last' = Call("at", c, c, index, -1, <<>>, index, "none")
    /\ UNCHANGED <<vectors, Tdefault>>

\* at(index): throws std::out_of_range when index >= size(), else wrapper(this, index).
At(c, index) ==
    /\ last = Idle
    /\ IF index >= size(vectors[c])
       THEN last' = Call("at", c, "-", index, -1, <<>>, -1, "out_of_range")
       ELSE last' = Call("at", c, c, index, -1, <<>>, index, "none")
    /\ UNCHANGED <<vectors, Tdefault>>

\* c[index] = value
WrapperAssign(c, index, val) ==
    /\ last = Idle
    /\ HasSlot(vectors[c], index)
    /\ vectors' = [vectors EXCEPT ![c] = wrapper_assign(vectors[c], index, val)]
    /\ last' = Call("wrapper=(const T&)", c, c, index, -1, <<val>>, index, "none")
    /\ UNCHANGED Tdefault

\* c[index] = std::move(value)
WrapperAssignMove(c, index, val) ==
    /\ last = Idle
    /\ HasSlot(vectors[c], index)
    /\ vectors' = [vectors EXCEPT ![c] = wrapper_assign(vectors[c], index, val)]
    /\ last' = Call("wrapper=(T&&)", c, c, index, -1, <<val>>, index, "none")
    /\ UNCHANGED Tdefault

\* c[a] = other[b].  _wrapper declares no assignment from a _wrapper, so the
\* implicitly-defined one is chosen over operator=(const T&) (which needs the
\* conversion to T): it copies the members parent and index of the right-hand
\* proxy into the left-hand temporary and touches no field array.
\* last.other and last.ret are the left-hand proxy's parent and index afterwards.
WrapperAssignWrapper(c, a, other, b) ==
    /\ last = Idle
    /\ HasSlot(vectors[c], a)
    /\ HasSlot(vectors[other], b)
    /\ last' = Call("wrapper=(wrapper)", c, other, a, b, <<>>, b, "none")
    /\ UNCHANGED <<vectors, Tdefault>>

\* swap(c[a], other[b]): the friend swap calls a.swap(b).
WrapperSwap(c, a, other, b) ==
    /\ last = Idle
    /\ HasSlot(vectors[c], a)
    /\ HasSlot(vectors[other], b)
    /\ vectors' = wrapper_swap(vectors, c, a, other, b)
    /\ last' = Call("swap(wrapper,wrapper)", c, other, a, b, <<>>, -1, "none")
    /\ UNCHANGED Tdefault

\* c[a] == other[b]; last.ret is 1 for true and 0 for false.
WrapperEquals(c, a, other, b) ==
    /\ last = Idle
    /\ HasSlot(vectors[c], a)
    /\ HasSlot(vectors[other], b)
    /\ last' = Call("wrapper==(wrapper)", c, other, a, b, <<>>,
                    IF wrapper_eq(vectors, c, a, other, b) THEN 1 ELSE 0, "none")
    /\ UNCHANGED <<vectors, Tdefault>>

\* c[a] == val; last.ret is 1 for true and 0 for false.
WrapperEqualsValue(c, a, val) ==
    /\ last = Idle
    /\ HasSlot(vectors[c], a)
    /\ last' = Call("wrapper==(const T&)", c, c, a, -1, <<val>>,
                    IF wrapper_eq_value(vectors, c, a, val) THEN 1 ELSE 0, "none")
    /\ UNCHANGED <<vectors, Tdefault>>

\* auto view = c.field<key>(); last.recs is what the view shows.
FieldView(c, key) ==
    /\ last = Idle
    /\ last' = KeyCall("field", c, key, -1, field(vectors[c], key))
    /\ UNCHANGED <<vectors, Tdefault>>

\* c.field<key>()[k] = x, with x of the view's element type.
FieldWrite(c, key, k, x) ==
    /\ last = Idle
    /\ HasSlot(vectors[c], k)
    /\ vectors' = [vectors EXCEPT ![c] = field_write(vectors[c], key, k, x)]
    /\ last' = KeyCall("field[k]=", c, key, k, <<x>>)
    /\ UNCHANGED Tdefault

\* The loop for (it = c.begin(); it != c.end(); ++it) read(*it).
\* last.held is the cursor, last.i the increments made and last.recs the
\* records read so far.
Looping == last.op \in {"begin", "++it"}
AtEnd == Looping /\ iterator_eq(last.held, soa_end(vectors, last.held.parent))

LoopBegin(c) ==
    /\ last = Idle
    /\ last' = HeldCall("begin", c, c, 0, <<>>, soa_begin(c))
    /\ UNCHANGED <<vectors, Tdefault>>

\* One turn of the loop: the cursor is not end(), the body reads *it (the
\* record has to exist), and ++it follows.
LoopIncrement ==
    /\ Looping
    /\ ~AtEnd
    /\ HasSlot(vectors[last.held.parent], last.held.index)
    /\ last' = HeldCall("++it", last.c, last.c, last.i + 1,
                        Append(last.recs, wrapper_value(vectors, iterator_deref(last.held))),
                        iterator_inc(last.held))
    /\ UNCHANGED <<vectors, Tdefault>>

\* auto p = c[index]: operator[] makes the proxy (this, index) of an existing
\* record, and the caller keeps it.
Index(c, index) ==
    /\ last = Idle
    /\ HasSlot(vectors[c], index)
    /\ last' = HeldCall("operator[]", c, c, 0, <<>>, [parent |-> c, index |-> index])
    /\ UNCHANGED <<vectors, Tdefault>>

\* A faulty swap, after which the proxy the caller holds refers to the other
\* container.
SwapHolding_follows(c, other) ==
    /\ last.op = "operator[]"
    /\ vectors' = swap(vectors, c, other)
    /\ last' = HeldCall("swap, proxy held", c, other, 0, <<>>,
                        [parent |-> IF last.held.parent = c THEN other ELSE c,
                         index |-> last.held.index])
    /\ UNCHANGED Tdefault

\* c.swap(other) while the caller holds the proxy of the previous statement:
\* the tuples of field arrays are exchanged, the proxy is not touched.
SwapHolding(c, other) ==
    /\ last.op = "operator[]"
    /\ vectors' = swap(vectors, c, other)
    /\ last' = HeldCall("swap, proxy held", c, other, 0, <<>>, last.held)
    /\ UNCHANGED Tdefault

----------------------------------------------------------------------------
\* Capacity.  A vector's capacity is not part of the state: reserve and
\* shrink_to_fit leave every field array's elements as they are.

Reserve(c, new_cap) ==
    /\ last = Idle
    /\ last' = Call("reserve", c, "-", new_cap, -1, <<>>, -1, "none")
    /\ UNCHANGED <<vectors, Tdefault>>

ShrinkToFit(c) ==
    /\ last = Idle
    /\ last' = Call("shrink_to_fit", c, "-", -1, -1, <<>>, -1, "none")
    /\ UNCHANGED <<vectors, Tdefault>>

----------------------------------------------------------------------------
\* Modifiers.

Clear(c) ==
    /\ last = Idle
    /\ vectors' = [vectors EXCEPT ![c] = clear(vectors[c])]
    /\ last' = Call("clear", c, "-", -1, -1, <<>>, -1, "none")
    /\ UNCHANGED Tdefault

Insert(c, pos, val) ==
    /\ last = Idle
    /\ HasPos(vectors[c], pos)
    /\ Room(vectors[c], 1)
    /\ vectors' = [vectors EXCEPT ![c] = insert(vectors[c], pos, val, NumFields)]
    /\ last' = Call("insert(pos,value)", c, c, pos, -1, <<val>>, pos, "none")
    /\ UNCHANGED Tdefault

InsertCount(c, pos, count, val) ==
    /\ last = Idle
    /\ HasPos(vectors[c], pos)
    /\ count <= MaxIns
    /\ Room(vectors[c], count)
    /\ vectors' = [vectors EXCEPT ![c] = insert_count(vectors[c], pos, count, val, 0, NumFields)]
    /\ last' = Call("insert(pos,count,value)", c, c, pos, count, <<val>>, pos, "none")
    /\ UNCHANGED Tdefault

InsertRange(c, pos, range) ==
    /\ last = Idle
    /\ HasPos(vectors[c], pos)
    /\ Room(vectors[c], Len(range))
    /\ vectors' = [vectors EXCEPT ![c] = insert_range(vectors[c], pos, range, 0, NumFields)]
    /\ last' = Call("insert(pos,first,last)", c, c, pos, -1, range, pos, "none")
    /\ UNCHANGED Tdefault

InsertIlist(c, pos, ilist) ==
    /\ last = Idle
    /\ HasPos(vectors[c], pos)
    /\ Room(vectors[c], Len(ilist))
    /\ vectors' = [vectors EXCEPT ![c] = insert_ilist(vectors[c], pos, ilist, 0, NumFields)]
    /\ last' = Call("insert(pos,ilist)", c, c, pos, -1, ilist, pos, "none")
    /\ UNCHANGED Tdefault

Erase(c, pos) ==
    /\ last = Idle
    /\ HasSlot(vectors[c], pos)
    /\ vectors' = [vectors EXCEPT ![c] = erase(vectors[c], pos)]
    /\ last' = Call("erase(pos)", c, c, pos, -1, <<>>, pos, "none")
    /\ UNCHANGED Tdefault

EraseRange(c, first, lst) ==
    /\ last = Idle
    /\ first <= lst
    /\ HasPos(vectors[c], lst)
    /\ vectors' = [vectors EXCEPT ![c] = erase_range(vectors[c], first, lst)]
    /\ last' = Call("erase(first,last)", c, c, first, lst, <<>>, first, "none")
    /\ UNCHANGED Tdefault

PushBack(c, val) ==
    /\ last = Idle
    /\ Room(vectors[c], 1)
    /\ vectors' = [vectors EXCEPT ![c] = push_back(vectors[c], val, NumFields)]
    /\ last' = Call("push_back", c, "-", -1, -1, <<val>>, -1, "none")
    /\ UNCHANGED Tdefault

PopBack(c) ==
    /\ last = Idle
    /\ HasSlot(vectors[c], 0)
    /\ vectors' = [vectors EXCEPT ![c] = pop_back(vectors[c])]
    /\ last' = Call("pop_back", c, "-", -1, -1, <<>>, -1, "none")
    /\ UNCHANGED Tdefault

Resize(c, count) ==
    /\ last = Idle
    /\ vectors' = [vectors EXCEPT ![c] = resize(vectors[c], count, NumFields)]
    /\ last' = Call("resize(count)", c, "-", count, -1, <<>>, -1, "none")
    /\ UNCHANGED Tdefault

ResizeValue(c, count, val) ==
    /\ last = Idle
    /\ vectors' = [vectors EXCEPT ![c] = resize_value(vectors[c], count, val, NumFields)]
    /\ last' = Call("resize(count,value)", c, "-", count, -1, <<val>>, -1, "none")
    /\ UNCHANGED Tdefault

Swap(c, other) ==
    /\ last = Idle
    /\ vectors' = swap(vectors, c, other)
    /\ last' = Call("swap", c, other, -1, -1, <<>>, -1, "none")
    /\ UNCHANGED Tdefault

----------------------------------------------------------------------------
\* The same growing calls when the allocation for field array upto + 1 fails
\* (std::bad_alloc): the vector that could not grow is left as it was
\* (std::vector's strong guarantee), the exception leaves for_each_vector, and
\* nothing in soa catches it.

PushBackFail(c, val, upto) ==
    /\ last = Idle
    /\ Room(vectors[c], 1)
    /\ vectors' = [vectors EXCEPT ![c] = push_back(vectors[c], val, upto)]
    /\ last' = Call("push_back", c, "-", -1, -1, <<val>>, -1, "bad_alloc")
    /\ UNCHANGED Tdefault

InsertFail(c, pos, val, upto) ==
    /\ last = Idle
    /\ HasPos(vectors[c], pos)
    /\ Room(vectors[c], 1)
    /\ vectors' = [vectors EXCEPT ![c] = insert(vectors[c], pos, val, upto)]
    /\ last' = Call("insert(pos,value)", c, c, pos, -1, <<val>>, -1, "bad_alloc")
    /\ UNCHANGED Tdefault

InsertCountFail(c, pos, count, val, failAt, upto) ==
    /\ last = Idle
    /\ HasPos(vectors[c], pos)
    /\ count <= MaxIns
    /\ failAt <= count
    /\ Room(vectors[c], count)
    /\ vectors' = [vectors EXCEPT ![c] = insert_count(vectors[c], pos, count, val, failAt, upto)]
    /\ last' = Call("insert(pos,count,value)", c, c, pos, count, <<val>>, -1, "bad_alloc")
    /\ UNCHANGED Tdefault

InsertRangeFail(c, pos, range, failAt, upto) ==
    /\ last = Idle
    /\ HasPos(vectors[c], pos)
    /\ failAt <= Len(range)
    /\ Room(vectors[c], Len(range))
    /\ vectors' = [vectors EXCEPT ![c] = insert_range(vectors[c], pos, range, failAt, upto)]
    /\ last' = Call("insert(pos,first,last)", c, c, pos, -1, range, -1, "bad_alloc")
    /\ UNCHANGED Tdefault

InsertIlistFail(c, pos, ilist, failAt, upto) ==
    /\ last = Idle
    /\ HasPos(vectors[c], pos)
    /\ failAt <= Len(ilist)
    /\ Room(vectors[c], Len(ilist))
    /\ vectors' = [vectors EXCEPT ![c] = insert_ilist(vectors[c], pos, ilist, failAt, upto)]
    /\ last' = Call("insert(pos,ilist)", c, c, pos, -1, ilist, -1, "bad_alloc")
    /\ UNCHANGED Tdefault

\* Only a vector that has to grow allocates.
ResizeFail(c, count, upto) ==
    /\ last = Idle
    /\ count > Len(vectors[c][upto + 1])
    /\ vectors' = [vectors EXCEPT ![c] = resize(vectors[c], count, upto)]
    /\ last' = Call("resize(count)", c, "-", count, -1, <<>>, -1, "bad_alloc")
    /\ UNCHANGED Tdefault

ResizeValueFail(c, count, val, upto) ==
    /\ last = Idle
    /\ count > Len(vectors[c][upto + 1])
    /\ vectors' = [vectors EXCEPT ![c] = resize_value(vectors[c], count, val, upto)]
    /\ last' = Call("resize(count,value)", c, "-", count, -1, <<val>>, -1, "bad_alloc")
    /\ UNCHANGED Tdefault

ReserveFail(c, new_cap) ==
    /\ last = Idle
    /\ new_cap > 0
    /\ last' = Call("reserve", c, "-", new_cap, -1, <<>>, -1, "bad_alloc")
    /\ UNCHANGED <<vectors, Tdefault>>

----------------------------------------------------------------------------

\* The statement that made the call ends: the cursor or proxy it returned, or
\* the std::out_of_range it threw, is dropped, and the caller goes on to its
\* next call.  A std::bad_alloc is not handled: the behaviour ends with it.
\* A write through a field view makes records that are none of InputRecords;
\* the behaviours are followed up to the first such write.  A traversal loop
\* ends only when its cursor equals end().
Discard ==
    /\ last # Idle
    /\ last.thrown # "bad_alloc"
    /\ last.op # "field[k]="
    /\ Looping => AtEnd
    /\ last' = Idle
    /\ UNCHANGED <<vectors, Tdefault>>

NextNoFail ==
    \/ Discard
    \/ \E c \in Containers : Construct(c)
    \/ \E c \in Containers, count \in Counts : ConstructCount(c, count)
    \/ \E c \in Containers, count \in Counts, val \in InputRecords :
           ConstructCountValue(c, count, val)
    \/ \E c \in Containers, range \in Ranges : ConstructRange(c, range)
    \/ \E c \in Containers, ilist \in Ranges : ConstructIlist(c, ilist)
    \/ \E c, other \in Containers : CopyConstruct(c, other)
    \/ \E c, other \in Containers : MoveConstruct(c, other)
    \/ \E c, other \in Containers : CopyAssign(c, other)
    \/ \E c, other \in Containers : MoveAssign(c, other)
    \/ \E c \in Containers, ilist \in Ranges : AssignIlistOp(c, ilist)
    \/ \E c \in Containers, count \in Counts, val \in InputRecords : Assign(c, count, val)
    \/ \E c \in Containers, range \in Ranges : AssignRange(c, range)
    \/ \E c \in Containers, ilist \in Ranges : AssignIlist(c, ilist)
    \/ \E c \in Containers, index \in Indices : At(c, index)
    \/ \E c \in Containers, index \in Indices, val \in InputRecords :
           WrapperAssign(c, index, val)
    \/ \E c \in Containers, index \in Indices, val \in InputRecords :
           WrapperAssignMove(c, index, val)
    \/ \E c, other \in Containers, a, b \in Indices : WrapperAssignWrapper(c, a, other, b)
    \/ \E c \in Containers, new_cap \in Counts : Reserve(c, new_cap)
    \/ \E c \in Containers : ShrinkToFit(c)
    \/ \E c \in Containers : Clear(c)
    \/ \E c \in Containers, pos \in Indices, val \in InputRecords : Insert(c, pos, val)
    \/ \E c \in Containers, pos \in Indices, count \in Counts, val \in InputRecords :
           InsertCount(c, pos, count, val)
    \/ \E c \in Containers, pos \in Indices, range \in Ranges : InsertRange(c, pos, range)
    \/ \E c \in Containers, pos \in Indices, ilist \in Ranges : InsertIlist(c, pos, ilist)
    \/ \E c \in Containers, pos \in Indices : Erase(c, pos)
    \/ \E c \in Containers, first, lst \in Indices : EraseRange(c, first, lst)
    \/ \E c \in Containers, val \in InputRecords : PushBack(c, val)
    \/ \E c \in Containers : PopBack(c)
    \/ \E c \in Containers, count \in Counts : Resize(c, count)
    \/ \E c \in Containers, count \in Counts, val \in InputRecords : ResizeValue(c, count, val)
    \/ \E c, other \in Containers : Swap(c, other)

\* The calls a caller needs to bring the two containers to any contents the
\* calls of NextNoFail can bring them to.
NextBuild ==
    \/ Discard
    \/ \E c \in Containers, ilist \in Ranges : ConstructIlist(c, ilist)
    \/ \E c \in Containers, val \in InputRecords : PushBack(c, val)
    \/ \E c \in Containers : PopBack(c)
    \/ \E c \in Containers : Clear(c)
    \/ \E c, other \in Containers : Swap(c, other)

\* The calls on proxies, field views and cursors.
NextProxy ==
    \/ \E c, other \in Containers, a, b \in Indices : WrapperSwap(c, a, other, b)
    \/ \E c, other \in Containers, a, b \in Indices : WrapperEquals(c, a, other, b)
    \/ \E c \in Containers, a \in Indices, val \in InputRecords :
           WrapperEqualsValue(c, a, val)
    \/ \E c \in Containers, key \in Keys : FieldView(c, key)
    \/ \E c \in Containers : LoopBegin(c)
    \/ \E c \in Containers, index \in Indices : Index(c, index)
    \/ \E c, other \in Containers : SwapHolding(c, other)
    \/ LoopIncrement
    \/ \E c \in Containers, key \in Keys, k \in Indices :
           \E x \in FieldValues(field_of(key)) : FieldWrite(c, key, k, x)

NextFail ==
    \/ \E c \in Containers, val \in InputRecords, upto \in 0..(NumFields - 1) :
           PushBackFail(c, val, upto)
    \/ \E c \in Containers, pos \in Indices, val \in InputRecords, upto \in 0..(NumFields - 1) :
           InsertFail(c, pos, val, upto)
    \/ \E c \in Containers, pos \in Indices, count \in Counts, val \in InputRecords,
          failAt \in 1..MaxIns, upto \in 0..(NumFields - 1) :
           InsertCountFail(c, pos, count, val, failAt, upto)
    \/ \E c \in Containers, pos \in Indices, range \in Ranges,
          failAt \in 1..MaxIns, upto \in 0..(NumFields - 1) :
           InsertRangeFail(c, pos, range, failAt, upto)
    \/ \E c \in Containers, pos \in Indices, ilist \in Ranges,
          failAt \in 1..MaxIns, upto \in 0..(NumFields - 1) :
           InsertIlistFail(c, pos, ilist, failAt, upto)
    \/ \E c \in Containers, count \in Counts, upto \in 0..(NumFields - 1) :
           ResizeFail(c, count, upto)
    \/ \E c \in Containers, count \in Counts, val \in InputRecords, upto \in 0..(NumFields - 1) :
           ResizeValueFail(c, count, val, upto)
    \/ \E c \in Containers, new_cap \in Counts : ReserveFail(c, new_cap)

Next == NextNoFail \/ NextProxy \/ NextFail

\* Every call, allocation failures included.
Spec == Init /\ [][Next]_vars

\* The behaviours in which no allocation fails.
SpecNoFail == Init /\ [][NextNoFail]_vars

\* The calls on proxies, field views and cursors, on containers of any
\* contents.
SpecProxy == Init /\ [][NextBuild \/ NextProxy]_vars

\* The same where a traversal loop that can take a turn does take it.
SpecTraversal == SpecProxy /\ WF_vars(LoopIncrement)

----------------------------------------------------------------------------
\* What a caller sees of a container: its records in index order.

Elements(vecs) == [k \in 1..size(vecs) |-> value(vecs, k - 1)]

Filled(count, r) == [k \in 1..count |-> r]

----------------------------------------------------------------------------
\* C1: when every call succeeds, after each call every one of the N field
\* arrays of every container has the same length, the one size() reports.
C1_EqualLengths ==
    \A c \in Containers : \A f \in Fields : Len(vectors[c][f]) = size(vectors[c])

C1_Witness ==
    /\ last.op = "erase(first,last)"
    /\ last.j > last.i
    /\ size(vectors[last.c]) >= 1
    /\ \E c \in Containers : c # last.c /\ size(vectors[c]) = MaxSize

\* C2: when a growing call (push_back, insert, resize, reserve) returns with
\* an allocation failure, all field arrays of the container have equal lengths.
C2_FailureKeepsLengthsEqual ==
    last.thrown = "bad_alloc" =>
        \A f \in Fields : Len(vectors[last.c][f]) = size(vectors[last.c])

\* C3: after c[a] = c[b] with a # b the record at index a equals the record
\* at index b (which the call, leaving b alone, did not change).
C3_ProxyAssignCopies ==
    (last.op = "wrapper=(wrapper)" /\ last.c = last.other /\ last.i # last.j) =>
        value(vectors[last.c], last.i) = value(vectors[last.c], last.j)

\* C4: resize(count) keeps the first min(count, size()) records and fills every
\* new index with the default-constructed record, the one soa(count) holds at
\* every index; resize(count, value) fills the new indices with value.
C4_ResizeFills ==
    [][ /\ last'.op = "resize(count)" =>
            LET old == Elements(vectors[last'.c])
                new == Elements(vectors'[last'.c])
                dfl == Elements(soa_count(last'.i, Tdefault))
            IN  /\ Len(new) = last'.i
                /\ \A k \in 1..last'.i :
                       new[k] = IF k <= Len(old) THEN old[k] ELSE dfl[k]
        /\ last'.op = "resize(count,value)" =>
            LET old == Elements(vectors[last'.c])
                new == Elements(vectors'[last'.c])
            IN  /\ Len(new) = last'.i
                /\ \A k \in 1..last'.i :
                       new[k] = IF k <= Len(old) THEN old[k] ELSE last'.recs[1]
      ]_vars

\* C5: erase(pos) at index i of n records leaves n - 1, those before i as
\* they were and each later one moved back by one, and returns a cursor at i;
\* erase(first, last) removes exactly [first, last), moves the later records
\* back by last - first and returns a cursor at first.
C5_EraseShift ==
    [][ /\ last'.op = "erase(pos)" =>
            LET old == Elements(vectors[last'.c])
                new == Elements(vectors'[last'.c])
                i == last'.i
            IN  /\ \A f \in Fields : Len(vectors'[last'.c][f]) = Len(old) - 1
                /\ \A j \in 0..(i - 1) : new[j + 1] = old[j + 1]
                /\ \A j \in i..(Len(old) - 2) : new[j + 1] = old[j + 2]
                /\ last'.other = last'.c /\ last'.ret = i
        /\ last'.op = "erase(first,last)" =>
            LET old == Elements(vectors[last'.c])
                new == Elements(vectors'[last'.c])
                first == last'.i
                d == last'.j - last'.i
            IN  /\ \A f \in Fields : Len(vectors'[last'.c][f]) = Len(old) - d
                /\ \A j \in 0..(first - 1) : new[j + 1] = old[j + 1]
                /\ \A j \in first..(Len(old) - d - 1) : new[j + 1] = old[j + d + 1]
                /\ last'.other = last'.c /\ last'.ret = first
      ]_vars

C5_Witness ==
    /\ last.op = "erase(pos)"
    /\ last.i >= 1
    /\ size(vectors[last.c]) > last.i
    /\ \E k \in 1..size(vectors[last.c]) :
           value(vectors[last.c], k - 1) # value(vectors[last.c], 0)

\* C6: a multi-element insert of r1..rk at pos (count copies, a range or a
\* literal list) gives what k single inserts at pos, pos + 1, ... give: k more
\* records, r1..rk in input order at [pos, pos + k), the records before pos
\* as they were, the others moved up by k, and a cursor at the original pos.
RECURSIVE C6_SingleInserts(_, _, _)
C6_SingleInserts(vecs, pos, rs) ==
    IF rs = <<>> THEN vecs
    ELSE C6_SingleInserts(insert(vecs, pos, Head(rs), NumFields), pos + 1, Tail(rs))

C6_Inserted(rs) ==
    LET old == Elements(vectors[last'.c])
        new == Elements(vectors'[last'.c])
        pos == last'.i
        k == Len(rs)
    IN  /\ \A f \in Fields : Len(vectors'[last'.c][f]) = Len(old) + k
        /\ \A j \in 0..(pos - 1) : new[j + 1] = old[j + 1]
        /\ \A j \in 0..(k - 1) : new[pos + j + 1] = rs[j + 1]
        /\ \A j \in pos..(Len(old) - 1) : new[j + k + 1] = old[j + 1]
        /\ vectors'[last'.c] = C6_SingleInserts(vectors[last'.c], pos, rs)
        /\ last'.other = last'.c /\ last'.ret = pos

C6_MultiInsert ==
    [][ /\ last'.op \in {"insert(pos,first,last)", "insert(pos,ilist)"} =>
            C6_Inserted(last'.recs)
        /\ last'.op = "insert(pos,count,value)" =>
            C6_Inserted(Filled(last'.j, last'.recs[1]))
      ]_vars

C6_Witness ==
    /\ last.op = "insert(pos,first,last)"
    /\ Len(last.recs) = 2
    /\ last.recs[1] # last.recs[2]
    /\ size(vectors[last.c]) > last.i + 2

\* C7: a.swap(b) gives a the size and the records b had, index for index, and
\* b those a had; swapping again restores both.
C7_SwapExchanges ==
    [][ last'.op = "swap" =>
            LET a == last'.c
                b == last'.other
            IN  /\ size(vectors'[a]) = size(vectors[b])
                /\ size(vectors'[b]) = size(vectors[a])
                /\ \A f \in Fields : /\ Len(vectors'[a][f]) = size(vectors[b])
                                     /\ Len(vectors'[b][f]) = size(vectors[a])
                /\ \A k \in 1..size(vectors[b]) :
                       value(vectors'[a], k - 1) = value(vectors[b], k - 1)
                /\ \A k \in 1..size(vectors[a]) :
                       value(vectors'[b], k - 1) = value(vectors[a], k - 1)
                /\ swap(vectors', a, b) = vectors
      ]_vars

C7_Witness ==
    /\ last.op = "swap"
    /\ last.c # last.other
    /\ size(vectors[last.c]) >= 1
    /\ size(vectors[last.other]) > size(vectors[last.c])

\* C8: after b = move(a), by construction or by assignment, every field array
\* of a is empty and b holds, index for index, the records a held.
C8_MoveEmptiesSource ==
    [][ last'.op \in {"soa(soa&&)", "operator=(soa&&)"} =>
            LET b == last'.c
                a == last'.other
            IN  /\ size(vectors'[a]) = 0
                /\ \A f \in Fields : vectors'[a][f] = <<>>
                /\ \A f \in Fields : Len(vectors'[b][f]) = size(vectors[a])
                /\ \A k \in 1..size(vectors[a]) :
                       value(vectors'[b], k - 1) = value(vectors[a], k - 1)
      ]_vars

C8_Witness ==
    /\ last.op = "operator=(soa&&)"
    /\ size(vectors[last.c]) >= 2
    /\ value(vectors[last.c], 0) # value(vectors[last.c], 1)

\* C9: at(i) reports out-of-range exactly when i >= size(), leaving the
\* container as it was; otherwise it returns a proxy of this container whose
\* value() is the record at index i.
C9_AtChecksBounds ==
    [][ last'.op = "at" =>
            /\ (last'.thrown = "out_of_range") <=> (last'.i >= size(vectors[last'.c]))
            /\ last'.thrown \in {"none", "out_of_range"}
            /\ vectors' = vectors
            /\ last'.thrown = "none" =>
                   /\ last'.other = last'.c
                   /\ value(vectors'[last'.other], last'.ret)
                          = Elements(vectors[last'.c])[last'.i + 1]
      ]_vars

C9_Witness ==
    /\ last.op = "at"
    /\ last.thrown = "out_of_range"
    /\ size(vectors[last.c]) >= 1
    /\ last.i = size(vectors[last.c])

\* C10: after p = r for a proxy p at index i < size(), p.value() = r: every
\* field of r is in slot i of its field array, and the size and the records
\* at the other indices are as before.
C10_ProxyAssignRoundTrip ==
    [][ last'.op \in {"wrapper=(const T&)", "wrapper=(T&&)"} =>
            LET c == last'.c
                i == last'.ret
                r == last'.recs[1]
            IN  /\ last'.other = c /\ i = last'.i
                /\ value(vectors'[c], i) = r
                /\ \A f \in Fields : /\ vectors'[c][f][i + 1] = r[f]
                                     /\ Len(vectors'[c][f]) = Len(vectors[c][f])
                /\ size(vectors'[c]) = size(vectors[c])
                /\ \A k \in 0..(size(vectors[c]) - 1) :
                       k # i => value(vectors'[c], k) = value(vectors[c], k)
                /\ \A d \in Containers : d # c => vectors'[d] = vectors[d]
      ]_vars

C10_Witness ==
    /\ last.op = "wrapper=(T&&)"
    /\ last.i >= 1
    /\ size(vectors[last.c]) > last.i + 1
    /\ value(vectors[last.c], 0) # last.recs[1]

\* C11: swap(c[a], c[b]) leaves the record formerly at b at index a and the
\* record formerly at a at index b, every other index and the sizes as they
\* were, which is what tmp = *a; *a = *b; *b = tmp gives (a = b changes
\* nothing).  The same exchange holds for the proxies of two containers.
C11_ThreeAssignments(vecs, a, b) ==
    LET tmp == value(vecs, a)
        first == wrapper_assign(vecs, a, value(vecs, b))
    IN  wrapper_assign(first, b, tmp)

C11_ProxySwap ==
    [][ last'.op = "swap(wrapper,wrapper)" =>
            LET c == last'.c
                d == last'.other
                a == last'.i
                b == last'.j
            IN  /\ value(vectors'[c], a) = value(vectors[d], b)
                /\ value(vectors'[d], b) = value(vectors[c], a)
                /\ \A e \in Containers : \A f \in Fields :
                       Len(vectors'[e][f]) = Len(vectors[e][f])
                /\ \A e \in Containers : \A k \in 0..(size(vectors[e]) - 1) :
                       (<<e, k>> # <<c, a>> /\ <<e, k>> # <<d, b>>) =>
                           value(vectors'[e], k) = value(vectors[e], k)
                /\ c = d => vectors'[c] = C11_ThreeAssignments(vectors[c], a, b)
                /\ (c = d /\ a = b) => vectors' = vectors
      ]_vars

C11_Witness ==
    /\ last.op = "swap(wrapper,wrapper)"
    /\ last.c = last.other
    /\ last.i # last.j
    /\ value(vectors[last.c], last.i) # value(vectors[last.c], last.j)
    /\ size(vectors[last.c]) = 3

\* C12: a proxy compared with itself (same container, same index) is equal;
\* two proxies that differ in container or index are equal exactly when the
\* records at their indices are equal field by field; a proxy is equal to a
\* record exactly when the record at its index equals that record.
C12_ProxyEquality ==
    [][ /\ last'.op = "wrapper==(wrapper)" =>
               LET c == last'.c
                   d == last'.other
                   a == last'.i
                   b == last'.j
               IN  /\ last'.ret \in {0, 1}
                   /\ (c = d /\ a = b) => last'.ret = 1
                   /\ (c # d \/ a # b) =>
                          (last'.ret = 1 <=>
                               \A f \in Fields : vectors[c][f][a + 1] = vectors[d][f][b + 1])
        /\ last'.op = "wrapper==(const T&)" =>
               LET c == last'.c
                   a == last'.i
                   r == last'.recs[1]
               IN  /\ last'.ret \in {0, 1}
                   /\ last'.ret = 1 <=> \A f \in Fields : vectors[c][f][a + 1] = r[f]
      ]_vars

C12_Witness ==
    /\ last.op = "wrapper==(wrapper)"
    /\ last.c = last.other
    /\ last.i # last.j
    /\ last.ret = 1

\* C13: field<I>(), field<"name">() and field<U>() of one member give the same
\* field array; its length is size() and its element k is that member of the
\* record at index k; a write through the view at k is what the proxy at k
\* then reads for that member, and no other member, index or container changes.
C13_FieldOf(key) == IF key \in {"0", "i", "int"} THEN 1 ELSE 2

C13_FieldView ==
    [][ /\ last'.op = "field" =>
               LET c == last'.c
                   I == C13_FieldOf(last'.key)
                   view == last'.recs
               IN  /\ view = vectors[c][I]
                   /\ Len(view) = size(vectors[c])
                   /\ \A k \in 0..(size(vectors[c]) - 1) :
                          view[k + 1] = get(value(vectors[c], k), I)
                   /\ vectors' = vectors
        /\ last'.op = "field[k]=" =>
               LET c == last'.c
                   I == C13_FieldOf(last'.key)
                   k == last'.i
                   x == last'.recs[1]
               IN  /\ wrapper_field(vectors'[c], last'.key, k) = x
                   /\ \A key \in Keys : C13_FieldOf(key) = I =>
                          wrapper_field(vectors'[c], key, k) = x
                   /\ get(value(vectors'[c], k), I) = x
                   /\ \A f \in Fields : f # I => vectors'[c][f] = vectors[c][f]
                   /\ Len(vectors'[c][I]) = Len(vectors[c][I])
                   /\ \A n \in 0..(size(vectors[c]) - 1) :
                          n # k => vectors'[c][I][n + 1] = vectors[c][I][n + 1]
                   /\ \A e \in Containers : e # c => vectors'[e] = vectors[e]
      ]_vars

C13_Witness ==
    /\ last.op = "field[k]="
    /\ last.key = "s"
    /\ last.i = 1
    /\ size(vectors[last.c]) = 3
    /\ value(vectors[last.c], 1) \notin InputRecords

\* C14: in a traversal from begin() the cursor equals end() after exactly
\* size() increments and not before (at once for an empty container), the
\* records read so far are those at indices 0, 1, ... in that order, one for
\* each increment, and every traversal reaches end().
C14_Traversal ==
    /\ [](Looping =>
             LET c == last.c
                 n == last.i
             IN  /\ n <= size(vectors[c])
                 /\ AtEnd <=> n = size(vectors[c])
                 /\ Len(last.recs) = n
                 /\ \A k \in 0..(n - 1) : last.recs[k + 1] = value(vectors[c], k)
                 /\ n < size(vectors[c]) =>
                        wrapper_value(vectors, iterator_deref(last.held))
                            = value(vectors[c], n))
    /\ (Looping ~> AtEnd)

C14_Witness ==
    /\ AtEnd
    /\ last.i = 3
    /\ last.recs[1] # last.recs[2]

\* C15: a proxy made for (a, i) before a.swap(b) is still the pair (a, i)
\* after it: what it reads is the record b held at index i before the swap,
\* and when b had no index i the proxy is out of range.
C15_ProxyKeepsContainerAndIndex ==
    [][ (last'.op = "swap, proxy held" /\ last.held.parent = last'.c) =>
            LET a == last'.c
                b == last'.other
                i == last.held.index
            IN  /\ last'.held = [parent |-> a, index |-> i]
                /\ i < size(vectors[b]) =>
                       /\ HasSlot(vectors'[a], i)
                       /\ wrapper_value(vectors', last'.held) = value(vectors[b], i)
                /\ i >= size(vectors[b]) => ~HasSlot(vectors'[a], i)
      ]_vars

C15_Witness ==
    /\ last.op = "swap, proxy held"
    /\ last.c # last.other
    /\ last.held.parent = last.c
    /\ HasSlot(vectors[last.c], last.held.index)
    /\ HasSlot(vectors[last.other], last.held.index)
    /\ wrapper_value(vectors, last.held) # value(vectors[last.other], last.held.index)

====
